---- MODULE Spec2Model ----
(***************************************************************************)
(* The transaction store of the finance tracker (ExpenseTracker over one   *)
(* CSV file) and the view handlers that read and rewrite the same file.    *)
(*                                                                         *)
(* A CSV file is a header (sequence of column names) and a sequence of     *)
(* rows, each a sequence of cell texts.  Numbers appear in the file as     *)
(* text ("100.0") and are parsed when read, formatted when written.  eol   *)
(* says whether the last line of the file ends with a line terminator.     *)
(***************************************************************************)
EXTENDS Integers, Sequences, FiniteSets, TLC

VARIABLES
    file,         \* the backing CSV file (DATA_FILE)
    initialized,  \* an ExpenseTracker has been constructed on the file
    last,         \* the last operation: name, file before it, inputs, outcome
    summary,      \* the summary of the last dashboard response
    listing,      \* the rows of the last manage_investments response
    pc,           \* overlapping handlers: position of each worker
    snap,         \* overlapping handlers: the table each worker loaded
    req,          \* overlapping handlers: the request each worker serves
    hist          \* overlapping handlers: last writer and overlap record

vars == <<file, initialized, last, summary, listing, pc, snap, req, hist>>

----------------------------------------------------------------------------
(* Bounds *)

MaxRows == 2        \* rows the file may hold
MaxOps == 3         \* requests the overlapping workers serve in all

----------------------------------------------------------------------------
(* Text *)

REQUIRED_FIELDS == <<"Date", "Category", "Amount", "Type">>

\* the missing-value marker of a data frame
NaN == "NaN"

\* str.strip()
Strip(s) ==
    CASE s = " 2024-02 " -> "2024-02"
      [] s = " Income " -> "Income"
      [] s = " TYPE " -> "TYPE"
      [] s = "Type 2024-02 " -> "Type 2024-02"
      [] s = "expense 2024-02 " -> "expense 2024-02"
      [] s = "investment 2024-02 " -> "investment 2024-02"
      [] OTHER -> s

\* str.lower()
Lower(s) ==
    CASE s = "Date" -> "date"
      [] s = "Category" -> "category"
      [] s = "Amount" -> "amount"
      [] s = "Type" -> "type"
      [] s = "Income" -> "income"
      [] s = "Food" -> "food"
      [] s = "Rent" -> "rent"
      [] s = "Salary" -> "salary"
      [] s = "Invest" -> "invest"
      [] s = "TYPE" -> "type"
      [] s = "Type2024-01" -> "type2024-01"
      [] s = "Type2024-02" -> "type2024-02"
      [] s = "Type 2024-02" -> "type 2024-02"
      [] s = "Type 2024-02 " -> "type 2024-02 "
      [] s = NaN -> "nan"
      [] OTHER -> s

\* str(x) of a cell: the missing value prints as "nan"
AsStr(s) == IF s = NaN THEN "nan" ELSE s

\* "invest" in s
ContainsInvest(s) == s \in {"invest", "investment"}

\* s.startswith(p)
StartsWith(s, p) ==
    \/ s = p
    \/ p = "2024" /\ s \in {"2024-01", "2024-02"}

\* texts float() accepts, and the number each denotes
ParseFloat(s) ==
    CASE s \in {"0", "0.0"} -> [ok |-> TRUE, v |-> 0]
      [] s \in {"50", "50.0"} -> [ok |-> TRUE, v |-> 50]
      [] s \in {"100", "100.0"} -> [ok |-> TRUE, v |-> 100]
      [] s \in {"200", "200.0"} -> [ok |-> TRUE, v |-> 200]
      [] OTHER -> [ok |-> FALSE, v |-> 0]

\* str(float): how a float is written to the file
FloatStr(n) ==
    CASE n = 0 -> "0.0"
      [] n = 50 -> "50.0"
      [] n = 100 -> "100.0"
      [] n = 200 -> "200.0"


----------------------------------------------------------------------------
(* Sequences *)

Range(s) == {s[i] : i \in 1..Len(s)}

\* position of x in s, 0 when absent
RECURSIVE IndexOf(_, _, _)
IndexOf(s, x, i) ==
    IF i > Len(s) THEN 0
    ELSE IF s[i] = x THEN i ELSE IndexOf(s, x, i + 1)

\* s without its element at position p (1-based)
RemoveAt(s, p) ==
    [j \in 1..(Len(s) - 1) |-> IF j < p THEN s[j] ELSE s[j + 1]]

\* the subsequence of s at the positions in keep
RECURSIVE SelectIdx(_, _, _)
SelectIdx(s, keep, i) ==
    IF i > Len(s) THEN <<>>
    ELSE IF i \in keep THEN <<s[i]>> \o SelectIdx(s, keep, i + 1)
         ELSE SelectIdx(s, keep, i + 1)

----------------------------------------------------------------------------
(* The CSV file and the data frames read from it *)

NoFile == [exists |-> FALSE, header |-> <<>>, rows |-> <<>>, eol |-> TRUE]

\* ExpenseTracker._create_empty_file: the canonical header and no rows
CreateEmptyFile ==
    [exists |-> TRUE, header |-> REQUIRED_FIELDS, rows |-> <<>>, eol |-> TRUE]

\* the header check comparing names exactly, without lower-casing
FileHasValidHeader_CaseSensitive(f) ==
    IF ~f.exists \/ f.header = <<>> THEN FALSE
    ELSE Range(REQUIRED_FIELDS) \subseteq {Strip(h) : h \in Range(f.header)}

\* ExpenseTracker._file_has_valid_header; a file of zero bytes has no header
FileHasValidHeader(f) ==
    IF ~f.exists \/ f.header = <<>> THEN FALSE
    ELSE LET header_norm == {Lower(Strip(h)) : h \in Range(f.header)}
             required_norm == {Lower(h) : h \in Range(REQUIRED_FIELDS)}
         IN  required_norm \subseteq header_norm

\* ExpenseTracker.__init__: keep a file with a valid header, else recreate it
InitStore(f) ==
    IF ~f.exists THEN CreateEmptyFile
    ELSE IF ~FileHasValidHeader(f) THEN CreateEmptyFile
    ELSE f

\* a Transaction is [date, category, amount, t_type]; to_dict names the fields
ToDict(t) ==
    [Date |-> t.date, Category |-> t.category, Amount |-> t.amount, Type |-> t.t_type]

\* the record ExpenseTracker.add_transaction writes: Type trimmed and
\* lower-cased, Amount as a float, 0.0 when float() raises
NormalizeRecord(t) ==
    LET record == ToDict(t)
        amt == ParseFloat(record.Amount)
    IN  [record EXCEPT !.Type = Lower(Strip(record.Type)),
                       !.Amount = IF amt.ok THEN FloatStr(amt.v) ELSE FloatStr(0)]

\* a line written right after an unterminated line: its first field runs on
\* from the last field of that line, the other fields follow
Glue(prev, line) ==
    SubSeq(prev, 1, Len(prev) - 1)
        \o <<prev[Len(prev)] \o line[1]>>
        \o Tail(line)

\* csv.DictWriter(fieldnames=REQUIRED_FIELDS).writerow on a file opened for
\* append: one terminated line, the fields in the order of REQUIRED_FIELDS
\* whatever the header of the file is.  Nothing checks how the file ends: in
\* a file without a first line the line becomes the first, and after an
\* unterminated last line (the header or a row) it continues that line.
AppendRow(f, t) ==
    LET record == NormalizeRecord(t)
        line == <<record.Date, record.Category, record.Amount, record.Type>>
    IN  IF ~f.exists \/ f.header = <<>>
        THEN [exists |-> TRUE, header |-> line, rows |-> <<>>, eol |-> TRUE]
        ELSE IF f.eol
        THEN [f EXCEPT !.rows = Append(f.rows, line)]
        ELSE IF f.rows = <<>>
        THEN [f EXCEPT !.header = Glue(f.header, line), !.eol = TRUE]
        ELSE [f EXCEPT !.rows[Len(f.rows)] = Glue(f.rows[Len(f.rows)], line),
                       !.eol = TRUE]

\* a parsed line: short lines are padded with missing values, empty fields
\* are missing values
PadRow(row, n) ==
    [j \in 1..n |-> IF j > Len(row) THEN NaN
                    ELSE IF row[j] = "" THEN NaN ELSE row[j]]

\* the fields the first data line has more than the header: pandas takes
\* that many leading fields as the index, the columns are the fields after
LeadingCols(f) ==
    IF f.rows # <<>> /\ Len(f.rows[1]) > Len(f.header)
    THEN Len(f.rows[1]) - Len(f.header)
    ELSE 0

\* the parser fails on a line, after the first data line, with more fields
\* than the lines before it
TooManyFields(f) ==
    \E i \in 2..Len(f.rows) : Len(f.rows[i]) > Len(f.header) + LeadingCols(f)

\* the cells of the columns, row by row
ParsedRows(f) ==
    LET lead == LeadingCols(f)
        n == Len(f.header)
    IN  [i \in 1..Len(f.rows) |->
           [j \in 1..n |-> PadRow(f.rows[i], n + lead)[lead + j]]]

\* type inference of one column: a column whose present cells are all numeric
\* becomes float64 and is written back in float format
InferColumn(rows, j) ==
    LET present == {rows[i][j] : i \in 1..Len(rows)} \ {NaN}
    IN  IF \A c \in present : ParseFloat(c).ok
        THEN [i \in 1..Len(rows) |->
                IF rows[i][j] = NaN THEN NaN ELSE FloatStr(ParseFloat(rows[i][j]).v)]
        ELSE [i \in 1..Len(rows) |-> rows[i][j]]

\* pd.read_csv(DATA_FILE).reset_index(drop=True): raises on a missing or
\* zero-byte file and on a line with too many fields
ReadCsv(f) ==
    IF ~f.exists \/ f.header = <<>> \/ TooManyFields(f)
    THEN [ok |-> FALSE, columns |-> <<>>, rows |-> <<>>]
    ELSE LET n == Len(f.header)
             padded == ParsedRows(f)
         IN  [ok |-> TRUE,
              columns |-> f.header,
              rows |-> [i \in 1..Len(padded) |->
                          [j \in 1..n |-> InferColumn(padded, j)[i]]]]

\* pd.read_csv(self.file_path, dtype=str): every cell stays text
ReadCsvStr(f) ==
    IF ~f.exists \/ f.header = <<>> \/ TooManyFields(f)
    THEN [ok |-> FALSE, columns |-> <<>>, rows |-> <<>>]
    ELSE [ok |-> TRUE, columns |-> f.header, rows |-> ParsedRows(f)]

\* df.to_csv(DATA_FILE, index=False): header and rows, every line terminated,
\* missing values empty
ToCsv(df) ==
    [exists |-> TRUE,
     eol |-> TRUE,
     header |-> df.columns,
     rows |-> [i \in 1..Len(df.rows) |->
                 [j \in 1..Len(df.columns) |->
                    IF df.rows[i][j] = NaN THEN "" ELSE df.rows[i][j]]]]

\* the drop taking row_id as counted from 1
DropRow_OneBased(df, row_id) == [df EXCEPT !.rows = RemoveAt(df.rows, row_id)]

\* df.drop(row_id).reset_index(drop=True); row_id counts from 0
DropRow(df, row_id) == [df EXCEPT !.rows = RemoveAt(df.rows, row_id + 1)]

\* df.loc[row_id, col] = val: sets the cell; a column the frame lacks is added
\* (missing in the other rows) and a label past the end adds a row
LocSet(df, row_id, col, val) ==
    LET hasCol == col \in Range(df.columns)
        columns == IF hasCol THEN df.columns ELSE Append(df.columns, col)
        n == Len(columns)
        widened == [i \in 1..Len(df.rows) |->
                      IF hasCol THEN df.rows[i] ELSE Append(df.rows[i], NaN)]
        rows == IF row_id < Len(widened) THEN widened
                ELSE Append(widened, [j \in 1..n |-> NaN])
        p == IF row_id < Len(widened) THEN row_id + 1 ELSE Len(rows)
        j == IndexOf(columns, col, 1)
    IN  [df EXCEPT !.columns = columns,
                   !.rows = [rows EXCEPT ![p][j] = val]]

----------------------------------------------------------------------------
(* ExpenseTracker._read_dataframe: the normalized table *)

\* the required name a column is renamed to, the column's own name otherwise
RenameColumn(c) ==
    IF \E k \in 1..Len(REQUIRED_FIELDS) : Lower(Strip(c)) = Lower(REQUIRED_FIELDS[k])
    THEN REQUIRED_FIELDS[CHOOSE k \in 1..Len(REQUIRED_FIELDS) :
                            Lower(Strip(c)) = Lower(REQUIRED_FIELDS[k])]
    ELSE c

\* pd.to_numeric(errors="coerce").fillna(0.0)
ToNumeric(c) == IF c # NaN /\ ParseFloat(c).ok THEN ParseFloat(c).v ELSE 0

\* ok is FALSE when the read raises: two columns renamed to one required name
\* make df[name] a frame, on which to_numeric and .str raise.  An unreadable
\* file and a file without rows give the empty table.
ReadDataframe(f) ==
    LET df == ReadCsvStr(f)
        renamed == [j \in 1..Len(df.columns) |-> RenameColumn(df.columns[j])]
        duplicated == \E a, b \in 1..Len(renamed) : a # b /\ renamed[a] = renamed[b]
        Cell(row, name) ==
            IF name \in Range(renamed) THEN row[IndexOf(renamed, name, 1)] ELSE ""
    IN  IF ~df.ok \/ df.rows = <<>> THEN [ok |-> TRUE, rows |-> <<>>]
        ELSE IF duplicated THEN [ok |-> FALSE, rows |-> <<>>]
        ELSE [ok |-> TRUE,
              rows |-> [i \in 1..Len(df.rows) |->
                 [Date |-> Strip(AsStr(Cell(df.rows[i], "Date"))),
                  Category |-> Strip(AsStr(Cell(df.rows[i], "Category"))),
                  Amount |-> ToNumeric(Cell(df.rows[i], "Amount")),
                  Type |-> Lower(Strip(AsStr(Cell(df.rows[i], "Type"))))]]]

----------------------------------------------------------------------------
(* Summaries over a normalized table *)

NoCategory == "<none>"

\* df[df["Type"] == type]["Amount"].sum()
RECURSIVE SumByType(_, _, _)
SumByType(rows, type, i) ==
    IF i > Len(rows) THEN 0
    ELSE (IF rows[i].Type = type THEN rows[i].Amount ELSE 0)
         + SumByType(rows, type, i + 1)

\* expense_df.groupby("Category")["Amount"].sum(), the entry of one category
RECURSIVE CategorySum(_, _, _)
CategorySum(rows, category, i) ==
    IF i > Len(rows) THEN 0
    ELSE (IF rows[i].Type = "expense" /\ rows[i].Category = category
          THEN rows[i].Amount ELSE 0)
         + CategorySum(rows, category, i + 1)

ExpenseCategories(rows) ==
    {rows[i].Category : i \in {k \in 1..Len(rows) : rows[k].Type = "expense"}}

\* ExpenseTracker.view_summary: a highest expense category is printed only
\* when there are expense rows and their amounts sum to more than zero
ViewSummaryPrintsTop(rows) ==
    /\ ExpenseCategories(rows) # {}
    /\ SumByType(rows, "expense", 1) > 0

\* home: rows whose Date is the text "Date" are dropped, then the filters
HomeFilter(rows, month, category) ==
    LET keep == {i \in 1..Len(rows) :
                   /\ rows[i].Date # "Date"
                   /\ (month # "" => StartsWith(rows[i].Date, month))
                   /\ (category # "" /\ category # "All"
                         => rows[i].Category = category)}
    IN  SelectIdx(rows, keep, 1)

EmptySummary ==
    [income |-> 0, expense |-> 0, balance |-> 0,
     top_category |-> NoCategory, top_value |-> 0, console_top |-> FALSE]

\* the balance as the sum of both totals
Balance_Sum(income, expense) == income + expense

\* the balance home reports
Balance(income, expense) == income - expense

\* home: whether a top category is reported for the expense rows
HasTopCategory(rows) == ExpenseCategories(rows) # {}

\* home: the summaries it may report for the filtered rows.  The first entry
\* of the category sums sorted descending is the top category; among equal
\* sums the sort may put any first.
HomeSummaries(all, rows) ==
    LET income == SumByType(rows, "income", 1)
        expense == SumByType(rows, "expense", 1)
        base == [EmptySummary EXCEPT !.income = income,
                                     !.expense = expense,
                                     !.balance = Balance(income, expense),
                                     !.console_top = ViewSummaryPrintsTop(all)]
        cats == ExpenseCategories(rows)
        tops == {c \in cats :
                   \A d \in cats : CategorySum(rows, c, 1) >= CategorySum(rows, d, 1)}
    IN  IF rows = <<>>
        THEN {[EmptySummary EXCEPT !.console_top = ViewSummaryPrintsTop(all)]}
        ELSE IF ~HasTopCategory(rows) THEN {base}
        ELSE {[base EXCEPT !.top_category = c,
                           !.top_value = CategorySum(rows, c, 1)] : c \in tops}

----------------------------------------------------------------------------
(* Inputs *)

Tx(d, c, a, t) == [date |-> d, category |-> c, amount |-> a, t_type |-> t]

NoTx == Tx("", "", "", "")

\* transactions and add forms: amounts arrive as text
Transactions ==
    { Tx("2024-01", "Rent", "abc", "expense"),
      Tx(" 2024-02 ", "Salary", "200", " Income "),
      Tx("2024-02", "Invest", "50", "investment") }

\* add_investment forms: date, category and amount
InvestmentForms ==
    { Tx("2024-02", "Invest", "50", ""),
      Tx("2024-01", "Invest", "abc", "") }

\* edit forms: date, category and amount
EditForms ==
    { Tx("2024-02", "Invest", "50", ""),
      Tx("2024-01", "Food", "abc", "") }

Methods == {"GET", "POST"}
MonthFilters == {"", "2024-01"}
CategoryFilters == {"All", "Food"}
\* row ids of a URL (<int:row_id>): inside the table and just past its end
RowIds == 0..MaxRows

\* files found at start-up
CsvFile(h, r) == [exists |-> TRUE, header |-> h, rows |-> r, eol |-> TRUE]

\* a file whose last line has no line terminator
Unterminated(h, r) == [exists |-> TRUE, header |-> h, rows |-> r, eol |-> FALSE]

PreExisting ==
    { NoFile,
      CsvFile(<<>>, <<>>),
      CsvFile(REQUIRED_FIELDS, <<>>),
      Unterminated(REQUIRED_FIELDS, <<>>),
      Unterminated(REQUIRED_FIELDS, << <<"2024-01", "Food", "100.0", "expense">> >>),
      Unterminated(REQUIRED_FIELDS,
                   << <<"2024-01", "Food", "100.0", "expense">>,
                      <<"2024-02", "Invest", "50.0", "investment">> >>),
      CsvFile(REQUIRED_FIELDS,
              << <<"2024-01", "Food", "100.0", "expense">>,
                 <<" 2024-02 ", "Salary", "200.0", "income">>,
                 <<"2024-02", "Invest", "50.0", "investment">> >>),
      CsvFile(<<"date", "category", "amount", "type">>,
              << <<"2024-02", "Invest", "50.0", "investment">> >>),
      CsvFile(<<"Category", "Date", "Amount", " TYPE ">>,
              << <<"Food", "2024-01", "100.0", "expense">> >>),
      CsvFile(<<"Date", "Category", "Type">>,
              << <<"2024-01", "Food", "expense">> >>) }

----------------------------------------------------------------------------
(* The handlers, one request at a time *)

Op(name, rid, tx, month, category, out) ==
    [op |-> name, pre |-> file, rid |-> rid, tx |-> tx,
     month |-> month, category |-> category, out |-> out]

Idle == <<pc, snap, req, hist>>

\* views.py at import: a missing data file is created with the header
EnsureDataFile ==
    /\ ~file.exists
    /\ file' = ToCsv([columns |-> REQUIRED_FIELDS, rows |-> <<>>])
    /\ last' = Op("import", 0, NoTx, "", "", "none")
    /\ summary' = EmptySummary /\ listing' = <<>>
    /\ UNCHANGED <<initialized, Idle>>

\* ExpenseTracker(file_path) constructed by a caller of the store
NewTracker ==
    /\ file' = InitStore(file)
    /\ initialized' = TRUE
    /\ last' = Op("init", 0, NoTx, "", "", "none")
    /\ summary' = EmptySummary /\ listing' = <<>>
    /\ UNCHANGED Idle

\* ExpenseTracker.add_transaction called on a constructed tracker
TrackerAdd ==
    \E t \in Transactions :
        /\ initialized
        /\ Len(AppendRow(file, t).rows) <= MaxRows
        /\ file' = AppendRow(file, t)
        /\ last' = Op("tracker_add", 0, t, "", "", "none")
        /\ summary' = EmptySummary /\ listing' = <<>>
        /\ UNCHANGED <<initialized, Idle>>

\* the body of views.add_transaction and views.add_investment on a POST:
\* float() of the amount is taken first and raises on text that is no number;
\* otherwise a tracker is constructed and the transaction appended
AddPost(name, form, t_type) ==
    LET amount == ParseFloat(form.amount)
        trans == Tx(form.date, form.category, FloatStr(amount.v), t_type)
    IN  IF ~amount.ok
        THEN /\ last' = Op(name, 0, form, "", "", "exception")
             /\ UNCHANGED <<file, initialized>>
        ELSE /\ file' = AppendRow(InitStore(file), trans)
             /\ initialized' = TRUE
             /\ last' = Op(name, 0, form, "", "", "redirect")

\* views.add_transaction
AddTransaction ==
    \E method \in Methods :
        /\ file.exists
        /\ IF method = "POST"
           THEN \E form \in Transactions :
                   /\ Len(AppendRow(InitStore(file), form).rows) <= MaxRows
                   /\ AddPost("add_transaction", form, form.t_type)
           ELSE /\ last' = Op("add_transaction", 0, NoTx, "", "", "render")
                /\ UNCHANGED <<file, initialized>>
        /\ summary' = EmptySummary /\ listing' = <<>>
        /\ UNCHANGED Idle

\* views.add_investment: the type is always "investment"
AddInvestment ==
    \E method \in Methods :
        /\ file.exists
        /\ IF method = "POST"
           THEN \E form \in InvestmentForms :
                   /\ Len(AppendRow(InitStore(file), form).rows) <= MaxRows
                   /\ AddPost("add_investment", form, "investment")
           ELSE /\ last' = Op("add_investment", 0, NoTx, "", "", "render")
                /\ UNCHANGED <<file, initialized>>
        /\ summary' = EmptySummary /\ listing' = <<>>
        /\ UNCHANGED Idle

\* views.home: constructs a tracker, reads the table through view_summary,
\* filters it and reports the summary
Home ==
    \E month \in MonthFilters, category \in CategoryFilters :
        LET table == ReadDataframe(InitStore(file))
        IN  /\ file.exists
            /\ file' = InitStore(file)
            /\ initialized' = TRUE
            /\ listing' = <<>>
            /\ IF ~table.ok
               THEN /\ summary' = EmptySummary
                    /\ last' = Op("home", 0, NoTx, month, category, "exception")
               ELSE /\ summary' \in HomeSummaries(table.rows,
                                       HomeFilter(table.rows, month, category))
                    /\ last' = Op("home", 0, NoTx, month, category, "render")
            /\ UNCHANGED Idle

\* positions (1-based) of the rows whose Category contains "invest"
InvestPositions(df) ==
    LET j == IndexOf(df.columns, "Category", 1)
    IN  {i \in 1..Len(df.rows) : ContainsInvest(Lower(df.rows[i][j]))}

\* manage_investments raises when the frame has rows but no column named
\* Category, or a missing value in it (the mask is then not boolean)
ManageRaises(df) ==
    \/ ~df.ok
    \/ /\ df.rows # <<>>
       /\ LET j == IndexOf(df.columns, "Category", 1)
          IN  j = 0 \/ \E i \in 1..Len(df.rows) : df.rows[i][j] = NaN

\* the id manage_investments gives the k-th listed row: its index after the
\* investment rows are selected and re-indexed from 0
ListingId(k) == k - 1

\* manage_investments: the investment rows, each with its id
Listing(df) ==
    LET inv == SelectIdx(df.rows, InvestPositions(df), 1)
    IN  [k \in 1..Len(inv) |-> [id |-> ListingId(k), row |-> inv[k]]]

\* views.manage_investments
ManageInvestments ==
    LET df == ReadCsv(file)
    IN  /\ file.exists
        /\ IF ManageRaises(df)
           THEN /\ listing' = <<>>
                /\ last' = Op("manage_investments", 0, NoTx, "", "", "exception")
           ELSE /\ listing' = Listing(df)
                /\ last' = Op("manage_investments", 0, NoTx, "", "", "render")
        /\ summary' = EmptySummary
        /\ UNCHANGED <<file, initialized, Idle>>

\* edit_investment: a row id past the end of the table is not edited
EditOutOfRange(row_id, n) == row_id >= n

\* delete_investment, delete_transaction: only a row id inside the table
DeleteInRange(row_id, n) == 0 <= row_id /\ row_id < n

\* edit_investment on a POST: Date and Category are set, then float() of the
\* amount is taken, which raises before anything is written
EditedFrame(df, row_id, form) ==
    LET d1 == LocSet(df, row_id, "Date", form.date)
        d2 == LocSet(d1, row_id, "Category", form.category)
    IN  LocSet(d2, row_id, "Amount", FloatStr(ParseFloat(form.amount).v))

\* the file delete_investment and delete_transaction leave
DeletedFile(f, df, row_id) ==
    IF DeleteInRange(row_id, Len(df.rows)) THEN ToCsv(DropRow(df, row_id)) ELSE f

\* views.edit_investment
EditInvestment ==
    \E row_id \in RowIds, method \in Methods :
        LET df == ReadCsv(file)
            name == "edit_investment"
        IN  /\ file.exists
            /\ IF ~df.ok
               THEN /\ last' = Op(name, row_id, NoTx, "", "", "exception")
                    /\ UNCHANGED file
               ELSE IF EditOutOfRange(row_id, Len(df.rows))
               THEN /\ last' = Op(name, row_id, NoTx, "", "", "redirect")
                    /\ UNCHANGED file
               ELSE IF method = "GET"
               THEN /\ last' = Op(name, row_id, NoTx, "", "", "render")
                    /\ UNCHANGED file
               ELSE \E form \in EditForms :
                      IF ~ParseFloat(form.amount).ok
                      THEN /\ last' = Op(name, row_id, form, "", "", "exception")
                           /\ UNCHANGED file
                      ELSE /\ file' = ToCsv(EditedFrame(df, row_id, form))
                           /\ last' = Op(name, row_id, form, "", "", "redirect")
            /\ summary' = EmptySummary /\ listing' = <<>>
            /\ UNCHANGED <<initialized, Idle>>

\* the body shared by delete_investment and delete_transaction
DeleteRow(name, row_id) ==
    LET df == ReadCsv(file)
    IN  /\ file.exists
        /\ IF ~df.ok
           THEN /\ last' = Op(name, row_id, NoTx, "", "", "exception")
                /\ UNCHANGED file
           ELSE /\ file' = DeletedFile(file, df, row_id)
                /\ last' = Op(name, row_id, NoTx, "", "", "redirect")
        /\ summary' = EmptySummary /\ listing' = <<>>
        /\ UNCHANGED <<initialized, Idle>>

\* views.delete_investment
DeleteInvestment == \E row_id \in RowIds : DeleteRow("delete_investment", row_id)

\* views.delete_transaction
DeleteTransaction == \E row_id \in RowIds : DeleteRow("delete_transaction", row_id)

----------------------------------------------------------------------------
(* One request at a time *)

NoReq == [op |-> "none", rid |-> 0, tx |-> NoTx]
NoFrame == [ok |-> FALSE, columns |-> <<>>, rows |-> <<>>]
Workers == {1, 2}

\* nothing written yet
NoWrite ==
    [writer |-> 0, kind |-> "none", req |-> NoReq, loaded |-> NoFile,
     overlapped |-> FALSE, out |-> "none"]

Init ==
    /\ file \in PreExisting
    /\ initialized = FALSE
    /\ last = [op |-> "start", pre |-> file, rid |-> 0, tx |-> NoTx,
               month |-> "", category |-> "", out |-> "none"]
    /\ summary = EmptySummary
    /\ listing = <<>>
    /\ pc = [w \in Workers |-> "idle"]
    /\ snap = [w \in Workers |-> [frame |-> NoFrame, src |-> NoFile]]
    /\ req = [w \in Workers |-> NoReq]
    /\ hist = [write |-> NoWrite,
               dirty |-> [w \in Workers |-> FALSE],
               served |-> 0]

Next ==
    \/ EnsureDataFile
    \/ NewTracker
    \/ TrackerAdd
    \/ AddTransaction
    \/ AddInvestment
    \/ Home
    \/ ManageInvestments
    \/ EditInvestment
    \/ DeleteInvestment
    \/ DeleteTransaction

Spec == Init /\ [][Next]_vars

----------------------------------------------------------------------------
(* Overlapping requests: a handler loads the table, and writes it back in a
   later step; nothing locks the file in between *)

\* the frame edit_investment, delete_investment and delete_transaction write
\* back: the frame they loaded with their one change applied
ChangedFrame(r, df) ==
    IF r.op = "edit_investment" THEN EditedFrame(df, r.rid, r.tx)
    ELSE DropRow(df, r.rid)

\* the handler ends at its load when the row id is out of range, or when
\* float() of the amount raises: nothing is written
WritesBack(r, df) ==
    /\ df.ok
    /\ IF r.op = "edit_investment"
       THEN ~EditOutOfRange(r.rid, Len(df.rows)) /\ ParseFloat(r.tx.amount).ok
       ELSE DeleteInRange(r.rid, Len(df.rows))

\* the requests that overlap: row ids of the first two rows
Requests ==
    {[op |-> "edit_investment", rid |-> i, tx |-> f] : i \in 0..1, f \in EditForms}
    \cup {[op |-> o, rid |-> i, tx |-> NoTx] :
            o \in {"delete_investment", "delete_transaction"}, i \in 0..1}

\* the transactions appended while requests overlap
Appended ==
    { Tx("2024-01", "Rent", "abc", "expense"),
      Tx(" 2024-02 ", "Salary", "200", " Income ") }

Sequential == <<initialized, last, summary, listing>>

\* the first half of a handler: pd.read_csv(DATA_FILE) and the checks
Load(w) ==
    \E r \in Requests :
        LET df == ReadCsv(file)
        IN  /\ pc[w] = "idle"
            /\ hist.served < MaxOps
            /\ req' = [req EXCEPT ![w] = r]
            /\ snap' = [snap EXCEPT ![w] = [frame |-> df, src |-> file]]
            /\ pc' = [pc EXCEPT ![w] = IF WritesBack(r, df) THEN "loaded" ELSE "idle"]
            /\ hist' = [hist EXCEPT !.served = @ + 1, !.dirty[w] = FALSE]
            /\ UNCHANGED <<file, Sequential>>

\* the write applied to the file as it is at the write, read again
WrittenFrame_Reread(w) == ReadCsv(file)

\* the frame a handler writes back is the one it loaded
WrittenFrame(w) == snap[w].frame

\* the second half: df.to_csv(DATA_FILE, index=False) and the redirect
Write(w) ==
    /\ pc[w] = "loaded"
    /\ file' = ToCsv(ChangedFrame(req[w], WrittenFrame(w)))
    /\ pc' = [pc EXCEPT ![w] = "idle"]
    /\ hist' = [hist EXCEPT
                  !.write = [writer |-> w, kind |-> "rewrite", req |-> req[w],
                             loaded |-> snap[w].src,
                             overlapped |-> hist.dirty[w], out |-> "redirect"],
                  !.dirty = [v \in Workers |-> v # w /\ pc[v] = "loaded"]]
    /\ UNCHANGED <<snap, req, Sequential>>

\* ExpenseTracker.add_transaction by a worker: the append is one step
AppendBy(w) ==
    \E t \in Appended :
        /\ pc[w] = "idle"
        /\ hist.served < MaxOps
        /\ Len(file.rows) <= MaxRows
        /\ file' = AppendRow(file, t)
        /\ hist' = [hist EXCEPT
                      !.served = @ + 1,
                      !.write = [writer |-> w, kind |-> "append",
                                 req |-> [op |-> "tracker_add", rid |-> 0, tx |-> t],
                                 loaded |-> file,
                                 overlapped |-> FALSE, out |-> "none"],
                      !.dirty = [v \in Workers |-> v # w /\ pc[v] = "loaded"]]
        /\ UNCHANGED <<pc, snap, req, Sequential>>

\* an initialized store with two rows
OverlapStart ==
    CsvFile(REQUIRED_FIELDS,
            << <<"2024-01", "Food", "100.0", "expense">>,
               <<"2024-02", "Invest", "50.0", "investment">> >>)

InitOverlap ==
    /\ file = OverlapStart
    /\ initialized = TRUE
    /\ last = [op |-> "start", pre |-> file, rid |-> 0, tx |-> NoTx,
               month |-> "", category |-> "", out |-> "none"]
    /\ summary = EmptySummary
    /\ listing = <<>>
    /\ pc = [w \in Workers |-> "idle"]
    /\ snap = [w \in Workers |-> [frame |-> NoFrame, src |-> NoFile]]
    /\ req = [w \in Workers |-> NoReq]
    /\ hist = [write |-> NoWrite,
               dirty |-> [w \in Workers |-> FALSE],
               served |-> 0]

NextOverlap == \E w \in Workers : Load(w) \/ Write(w) \/ AppendBy(w)

SpecOverlap == InitOverlap /\ [][NextOverlap]_vars

----------------------------------------------------------------------------
(* Properties of the handlers *)

\* the normalized tables before and after the last operation
TableBefore == ReadDataframe(last.pre)
TableAfter == ReadDataframe(file)
FrameBefore == ReadCsv(last.pre)
FrameAfter == ReadCsv(file)

\* the number an amount denotes, 0 when it denotes none
AmountOf(a) == IF ParseFloat(a).ok THEN ParseFloat(a).v ELSE 0

\* C1: after ExpenseTracker.add_transaction(t), a load yields the table
\* before plus one last row carrying t's Date and Category, t's amount as a
\* number (0 when unparsable) and t's type trimmed and lower-cased.
C1_AppendLoad ==
    last.op = "tracker_add" =>
        /\ TableAfter.ok
        /\ TableAfter.rows =
              Append(TableBefore.rows,
                     [Date |-> last.tx.date,
                      Category |-> last.tx.category,
                      Amount |-> AmountOf(last.tx.amount),
                      Type |-> Lower(Strip(last.tx.t_type))])

IsDelete == last.op \in {"delete_transaction", "delete_investment"}

ListedPosition(df, k) ==
    CHOOSE p \in InvestPositions(df) :
        Cardinality({q \in InvestPositions(df) : q <= p}) = k

ListedIds(df) == {Listing(df)[k].id : k \in 1..Len(Listing(df))}

\* C3: delete_investment(id) with an id of the manage_investments listing
\* removes exactly the listed row, and edit_investment(id) changes only it.
C3_ListedIdIdentifiesRow ==
    (/\ last.op \in {"delete_investment", "edit_investment"}
     /\ last.out = "redirect"
     /\ ~ManageRaises(FrameBefore)
     /\ last.rid \in ListedIds(FrameBefore)) =>
        LET p == ListedPosition(FrameBefore, last.rid + 1)
        IN  IF last.op = "delete_investment"
            THEN FrameAfter.rows = RemoveAt(FrameBefore.rows, p)
            ELSE /\ Len(FrameAfter.rows) = Len(FrameBefore.rows)
                 /\ \A i \in 1..Len(FrameBefore.rows) :
                       i # p => FrameAfter.rows[i] = FrameBefore.rows[i]

IsEditOrDelete ==
    last.op \in {"edit_investment", "delete_investment", "delete_transaction"}

\* the rows the backing table has before the last operation: a file that
\* cannot be read holds the empty table
RowsBefore == IF FrameBefore.ok THEN Len(FrameBefore.rows) ELSE 0

\* C4: an edit or delete whose row id is not below the number of rows of the
\* backing table leaves the file exactly as it was and answers with the
\* redirect, not an error.
C4_OutOfRangeNoOp ==
    (IsEditOrDelete /\ last.rid >= RowsBefore) =>
        /\ file = last.pre
        /\ last.out = "redirect"

\* the header names all four fields, compared case-insensitively after trimming
NamesAllFour(f) ==
    /\ f.exists
    /\ \A name \in {"date", "category", "amount", "type"} :
          \E j \in 1..Len(f.header) : Lower(Strip(f.header[j])) = name

\* C5: constructing the store keeps the file, rows included, if and only if
\* its header names Date, Category, Amount and Type case-insensitively after
\* trimming; any other file, and a missing file, is replaced by the canonical
\* header with no rows.
C5_InitKeepsIffValid ==
    last.op = "init" =>
        IF NamesAllFour(last.pre)
        THEN file = last.pre
        ELSE file = [exists |-> TRUE, header |-> REQUIRED_FIELDS,
                     rows |-> <<>>, eol |-> TRUE]

\* C5 witness: a file headed date,category,amount,type with a row was kept
C5_Witness ==
    /\ last.op = "init"
    /\ last.pre.header = <<"date", "category", "amount", "type">>
    /\ last.pre.rows # <<>>
    /\ file = last.pre

\* C6: once a store has been constructed, the file always has a header line
\* naming Date, Category, Amount and Type (case-insensitively, as the store
\* itself compares them), whatever adds, edits and deletes follow.
C6_HeaderKept == initialized => NamesAllFour(file)

\* C7: a POST to add_transaction or add_investment whose amount is no number
\* gets a validation-error answer, not an exception, and writes nothing.
C7_UnparsableAmountRejected ==
    (/\ last.op \in {"add_transaction", "add_investment"}
     /\ last.tx # NoTx
     /\ ~ParseFloat(last.tx.amount).ok) =>
        /\ last.out = "validation_error"
        /\ file = last.pre

\* the rows the last dashboard response summarizes
HomeRows == HomeFilter(TableAfter.rows, last.month, last.category)

\* the sum of the amounts of the expense rows of one category
ExpenseOf(rows, c) ==
    LET idx == {i \in 1..Len(rows) : rows[i].Type = "expense" /\ rows[i].Category = c}
        RECURSIVE Total(_)
        Total(S) == IF S = {} THEN 0
                    ELSE LET i == CHOOSE x \in S : TRUE
                         IN  rows[i].Amount + Total(S \ {i})
    IN  Total(idx)

\* C8: the dashboard reports no top category when there is no expense row or
\* every expense category sums to zero; otherwise a category of maximal
\* expense sum, with that sum as top_value.
C8_TopCategory ==
    (last.op = "home" /\ last.out = "render") =>
        LET cats == {HomeRows[i].Category :
                       i \in {k \in 1..Len(HomeRows) : HomeRows[k].Type = "expense"}}
        IN  IF cats = {} \/ \A c \in cats : ExpenseOf(HomeRows, c) = 0
            THEN summary.top_category = NoCategory
            ELSE /\ summary.top_category \in cats
                 /\ \A c \in cats :
                       ExpenseOf(HomeRows, summary.top_category) >= ExpenseOf(HomeRows, c)
                 /\ summary.top_value = ExpenseOf(HomeRows, summary.top_category)

\* the sum of the amounts of the rows of one type
TotalOfType(rows, type) ==
    LET idx == {i \in 1..Len(rows) : rows[i].Type = type}
        RECURSIVE Total(_)
        Total(S) == IF S = {} THEN 0
                    ELSE LET i == CHOOSE x \in S : TRUE
                         IN  rows[i].Amount + Total(S \ {i})
    IN  Total(idx)

\* C9: the dashboard's balance is its income total minus its expense total,
\* the totals being the sums of Amount over the rows of Type "income" and
\* "expense"; rows of any other type count in neither.
C9_Balance ==
    (last.op = "home" /\ last.out = "render") =>
        /\ summary.income = TotalOfType(HomeRows, "income")
        /\ summary.expense = TotalOfType(HomeRows, "expense")
        /\ summary.balance = summary.income - summary.expense

\* C9 witness: a dashboard over an income row, an expense row and an
\* investment row
C9_Witness ==
    /\ last.op = "home" /\ last.out = "render"
    /\ \E i \in 1..Len(HomeRows) : HomeRows[i].Type = "investment" /\ HomeRows[i].Amount > 0
    /\ summary.income > 0 /\ summary.expense > 0
    /\ summary.balance = summary.income - summary.expense

\* the file a rewriting handler leaves when it runs alone on file f
AloneResult(r, f) ==
    IF r.op = "edit_investment"
    THEN ToCsv(EditedFrame(ReadCsv(f), r.rid, r.tx))
    ELSE DeletedFile(f, ReadCsv(f), r.rid)

\* C10: when another write landed between a handler's load and its write,
\* the file after the handler's write is what the handler alone would have
\* made of the file it loaded: the other change is gone, and the handler
\* answers with its redirect.
C10_LastWriterWins ==
    (hist.write.kind = "rewrite" /\ hist.write.overlapped) =>
        /\ file = AloneResult(hist.write.req, hist.write.loaded)
        /\ hist.write.out = "redirect"

\* C10 witness: an append landed between a delete's load and its write, and
\* the appended row is not in the file the delete wrote
C10_Witness ==
    /\ hist.write.kind = "rewrite" /\ hist.write.overlapped
    /\ hist.write.req.op = "delete_transaction"
    /\ \E v \in Workers : v # hist.write.writer /\ req[v].op = "none"
    /\ Len(file.rows) = Len(hist.write.loaded.rows) - 1

====
